---- MODULE Spec2Model ----
(***************************************************************************)
(* A model of csvplugin.py (Sublime-Text-Advanced-CSV): the CSVMatrix grid, *)
(* its parser (ParseRow / FromText), its formatters (Format,               *)
(* FormatCompacted, FormatExpanded), the structural edits, the sort and    *)
(* the expression evaluator.                                               *)
(*                                                                         *)
(* A text is a sequence of one-character strings, so that quoting,         *)
(* splitting and padding act on characters as the Python code does.  A     *)
(* cell (CSVValue) is modelled by its text; first_char_index and           *)
(* last_char_index are read only by the editor selection code.             *)
(***************************************************************************)
EXTENDS Integers, Sequences, FiniteSets, TLC

VARIABLES
    view,           \* the editor buffer: the text FromView reads and the commands replace
    rows,           \* CSVMatrix.rows: a sequence of rows, each a sequence of cell texts
    num_columns,    \* CSVMatrix.num_columns
    valid,          \* CSVMatrix.valid
    column_widths,  \* CSVMatrix.column_widths (set by MeasureColumns)
    output,         \* the text the last Format* call returned
    error,          \* TRUE once sublime.error_message was shown
    pc,             \* position of the running handler
    source,         \* history: the buffer text the handler started from
    orig,           \* history: the rows before the operation(s) under check
    ops,            \* history: the operations applied to the matrix, in order
    row_iter,       \* Evaluate: the index (row_index) of the iterator over self.rows
    column_iter,    \* Evaluate: the index (column_index) of the iterator over the row
    last,           \* history: the locals of the last EvaluateExpressionCell call
    scanned,        \* history: coordinates tested against EXPRESSION_RE, in order
    evaluated,      \* history: coordinates whose text matched and was evaluated
    created         \* history: coordinates of cells appended by an expression

vars == <<view, rows, num_columns, valid, column_widths, output, error, pc,
          source, orig, ops, row_iter, column_iter, last, scanned,
          evaluated, created>>

(***************************************************************************)
(* Bounds of the model.                                                    *)
(***************************************************************************)
MaxTextLen == 4
MaxRows == 3
MaxCols == 3
MaxTrimRows == 2
MaxTrimCols == 3
MaxSortRows == 4
MaxEvalRows == 2
MaxEvalCols == 2
MaxExprs == 2

(***************************************************************************)
(* Characters and texts.                                                   *)
(***************************************************************************)
delimiter == ","
QUOTE == "\""
NEWLINE == "\n"
SPACE == " "

Max(a, b) == IF a >= b THEN a ELSE b
Min(a, b) == IF a <= b THEN a ELSE b

Range(s) == {s[i] : i \in DOMAIN s}

\* All sequences over S of length 0..n.
SeqsUpTo(S, n) == UNION {[1..k -> S] : k \in 0..n}

\* All sequences over S of length 1..n.
NonEmptySeqsUpTo(S, n) == UNION {[1..k -> S] : k \in 1..n}

\* n copies of c (none for n <= 0).
Repeat(c, n) == [i \in 1..Max(n, 0) |-> c]

\* str.ljust(width): pad with spaces on the right up to width.
LJust(text, width) == text \o Repeat(SPACE, width - Len(text))

\* str.replace('"', '""')
RECURSIVE DoubleQuotes(_)
DoubleQuotes(text) ==
    IF text = <<>> THEN <<>>
    ELSE (IF Head(text) = QUOTE THEN <<QUOTE, QUOTE>> ELSE <<Head(text)>>)
         \o DoubleQuotes(Tail(text))

IsSpace(c) == c \in {SPACE, NEWLINE, "\t", "\r"}

RECURSIVE LStrip(_)
LStrip(text) ==
    IF text # <<>> /\ IsSpace(Head(text)) THEN LStrip(Tail(text)) ELSE text

RECURSIVE RStrip(_)
RStrip(text) ==
    IF text # <<>> /\ IsSpace(text[Len(text)])
    THEN RStrip(SubSeq(text, 1, Len(text) - 1))
    ELSE text

\* str.strip()
Strip(text) == RStrip(LStrip(text))

\* str.split("\n"): always at least one piece.
RECURSIVE SplitLines(_, _)
SplitLines(text, current) ==
    IF text = <<>> THEN <<current>>
    ELSE IF Head(text) = NEWLINE
         THEN <<current>> \o SplitLines(Tail(text), <<>>)
         ELSE SplitLines(Tail(text), Append(current, Head(text)))

(***************************************************************************)
(* The parser.                                                             *)
(***************************************************************************)
\* The while loop of ParseRow from position char_index (1-based here).
RECURSIVE ParseRowFrom(_, _, _, _, _)
ParseRowFrom(row, char_index, columns, currentword, insidequotes) ==
    IF char_index > Len(row) THEN Append(columns, currentword)
    ELSE LET char == row[char_index]
             next_is_quote == char_index < Len(row) /\ row[char_index + 1] = QUOTE
         IN  IF char = QUOTE /\ next_is_quote
             THEN ParseRowFrom(row, char_index + 2, columns,
                               Append(currentword, QUOTE), insidequotes)
             ELSE IF insidequotes
             THEN IF char = QUOTE
                  THEN ParseRowFrom(row, char_index + 1, columns, currentword, FALSE)
                  ELSE ParseRowFrom(row, char_index + 1, columns,
                                    Append(currentword, char), TRUE)
             ELSE IF char = QUOTE
                  THEN ParseRowFrom(row, char_index + 1, columns, currentword, TRUE)
                  ELSE IF char = delimiter
                  THEN ParseRowFrom(row, char_index + 1, Append(columns, currentword),
                                    <<>>, FALSE)
                  ELSE ParseRowFrom(row, char_index + 1, columns,
                                    Append(currentword, char), FALSE)

ParseRow(row) == ParseRowFrom(row, 1, <<>>, <<>>, FALSE)

\* The maximum row length.
RECURSIVE MaxRowLen(_)
MaxRowLen(rs) ==
    IF rs = <<>> THEN 0 ELSE Max(Len(Head(rs)), MaxRowLen(Tail(rs)))

\* A matrix as CSVMatrix.__init__ leaves it.
NewMatrix == [rows |-> <<>>, num_columns |-> 0, valid |-> FALSE]

\* Finalize: without rows the matrix is left as it is.
Finalize(m) ==
    IF Len(m.rows) = 0 THEN m
    ELSE [rows |-> m.rows, num_columns |-> MaxRowLen(m.rows), valid |-> TRUE]

\* With blank lines skipped, as a parser that dropped them would do.
FromTextSkipBlank(text) ==
    LET lines == SplitLines(text, <<>>)
        kept == SelectSeq(lines, LAMBDA l : Strip(l) # <<>>)
    IN  Finalize([NewMatrix EXCEPT !.rows = [i \in 1..Len(kept) |-> ParseRow(kept[i])]])

\* FromText: one row per piece of text.split("\n"), then Finalize.
FromText(text) ==
    LET lines == SplitLines(text, <<>>)
    IN  Finalize([NewMatrix EXCEPT !.rows = [i \in 1..Len(lines) |-> ParseRow(lines[i])]])

(***************************************************************************)
(* The formatters.                                                         *)
(***************************************************************************)
QuoteText(text) ==
    IF delimiter \in Range(text) \/ QUOTE \in Range(text)
    THEN <<QUOTE>> \o DoubleQuotes(text) \o <<QUOTE>>
    ELSE text

\* Join the texts with the separator between them (none after the last).
RECURSIVE Join(_, _)
Join(texts, sep) ==
    IF texts = <<>> THEN <<>>
    ELSE IF Len(texts) = 1 THEN texts[1]
    ELSE texts[1] \o <<sep>> \o Join(Tail(texts), sep)

\* Format: quoted cells joined by the delimiter, rows joined by "\n".
Format(rs) ==
    Join([r \in 1..Len(rs) |->
            Join([c \in 1..Len(rs[r]) |-> QuoteText(rs[r][c])], delimiter)],
         NEWLINE)

\* FormatCompacted: as Format, each quoted cell stripped of surrounding whitespace.
FormatCompacted(rs) ==
    Join([r \in 1..Len(rs) |->
            Join([c \in 1..Len(rs[r]) |-> Strip(QuoteText(rs[r][c]))], delimiter)],
         NEWLINE)

\* The widest quoted text of column c (1-based) over all rows, 0 without any.
RECURSIVE ColumnWidth(_, _)
ColumnWidth(rs, c) ==
    IF rs = <<>> THEN 0
    ELSE Max(IF c <= Len(Head(rs)) THEN Len(QuoteText(Head(rs)[c])) ELSE 0,
             ColumnWidth(Tail(rs), c))

\* MeasureColumns: [0] * num_columns, raised to the widest quoted text per column.
\* (A row longer than num_columns raises IndexError in the code; the actions
\* below call it only where no row is.)
MeasureColumns(rs, ncols) == [c \in 1..ncols |-> ColumnWidth(rs, c)]

\* FormatExpanded: as Format, every quoted cell ljust-ed to its column's width.
FormatExpanded(rs, widths) ==
    Join([r \in 1..Len(rs) |->
            Join([c \in 1..Len(rs[r]) |-> LJust(QuoteText(rs[r][c]), widths[c])],
                 delimiter)],
         NEWLINE)

(***************************************************************************)
(* Structural edits.  Column indexes are 0-based as in the code; sequences *)
(* are 1-based.                                                            *)
(***************************************************************************)
\* list.insert(i, x) for 0 <= i <= len.
ListInsert(row, i, x) == SubSeq(row, 1, i) \o <<x>> \o SubSeq(row, i + 1, Len(row))

\* list.pop(i) for 0 <= i < len: the list without element i.
ListPop(row, i) == SubSeq(row, 1, i) \o SubSeq(row, i + 2, Len(row))

InsertColumn(rs, i) ==
    [r \in 1..Len(rs) |-> IF i <= Len(rs[r]) THEN ListInsert(rs[r], i, <<>>) ELSE rs[r]]

\* DeleteColumn with its test off by one: the last cell of a row never goes.
DeleteColumnNotLast(rs, i) ==
    [r \in 1..Len(rs) |-> IF i < Len(rs[r]) - 1 THEN ListPop(rs[r], i) ELSE rs[r]]

DeleteColumn(rs, i) ==
    [r \in 1..Len(rs) |-> IF i < Len(rs[r]) THEN ListPop(rs[r], i) ELSE rs[r]]

\* The loop of DeleteTrailingColumns over one row: the last 0-based index whose
\* stripped text is not empty, starting from last_column_index = 0.
LastColumnIndex(row) ==
    LET filled == {c \in 1..Len(row) : Len(Strip(row[c])) > 0}
    IN  IF filled = {} THEN 0
        ELSE (CHOOSE c \in filled : \A d \in filled : d <= c) - 1

\* del row[first_empty_column_index:] on every row.
DeleteTrailingColumns(rs) ==
    [r \in 1..Len(rs) |->
        SubSeq(rs[r], 1, Min(Len(rs[r]), LastColumnIndex(rs[r]) + 1))]

(***************************************************************************)
(* Values of the variables a specification does not use.                   *)
(***************************************************************************)
\* last before any expression was evaluated.  frow, fcol: the authoring cell;
\* coord_range: the range GetRowColumnCoordinateRange returned; target_range:
\* the range after ApplyDirectionOffsetToRange; prev_*: len(self.rows),
\* num_columns, the longest row and len(self.column_widths) when the call
\* began; the flags tell which groups of the match were present.
NoLast == [frow |-> 0, fcol |-> 0, coord_range |-> <<0, 0, 0, 0>>,
           target_range |-> <<0, 0, 0, 0>>, prev_rows |-> 0, prev_columns |-> 0,
           prev_max_len |-> 0, prev_widths |-> 0,
           row_begin |-> FALSE, row_delim |-> FALSE, row_end |-> FALSE,
           column_begin |-> FALSE, column_delim |-> FALSE, column_end |-> FALSE]

NoEvaluate ==
    /\ row_iter = 0
    /\ column_iter = 0
    /\ last = NoLast
    /\ scanned = <<>>
    /\ evaluated = <<>>
    /\ created = {}

EvaluateUnchanged == UNCHANGED <<row_iter, column_iter, last, scanned, evaluated, created>>

(***************************************************************************)
(* SpecParse: a command's path from the buffer to the buffer.  The buffer  *)
(* is parsed (FromView), the command checks matrix.valid, the matrix is    *)
(* rendered with Format into the buffer and the buffer is parsed again by  *)
(* the next command.                                                       *)
(***************************************************************************)
TextAlphabet == {"a", delimiter, QUOTE, NEWLINE, SPACE}

InitParse ==
    /\ view \in SeqsUpTo(TextAlphabet, MaxTextLen)
    /\ source = view
    /\ rows = NewMatrix.rows
    /\ num_columns = NewMatrix.num_columns
    /\ valid = NewMatrix.valid
    /\ column_widths = <<>>
    /\ output = <<>>
    /\ error = FALSE
    /\ pc = "idle"
    /\ orig = <<>>
    /\ ops = <<>>
    /\ NoEvaluate

\* CSVMatrix.FromView: the whole buffer through FromText.
FromView ==
    /\ pc \in {"idle", "formatted"}
    /\ LET matrix == FromText(view)
       IN  /\ rows' = matrix.rows
           /\ num_columns' = matrix.num_columns
           /\ valid' = matrix.valid
    /\ pc' = IF pc = "idle" THEN "parsed" ELSE "reparsed"
    /\ UNCHANGED <<view, column_widths, output, error, source, orig, ops>>
    /\ EvaluateUnchanged

\* The guard every command starts with: without a valid matrix it reports
\* the error and returns.
CheckValid ==
    /\ pc = "parsed"
    /\ IF ~valid
       THEN error' = TRUE /\ pc' = "refused"
       ELSE error' = error /\ pc' = "checked"
    /\ UNCHANGED <<view, rows, num_columns, valid, column_widths, output, source, orig, ops>>
    /\ EvaluateUnchanged

\* output = matrix.Format(); view.replace(edit, whole buffer, output)
FormatToView ==
    /\ pc = "checked"
    /\ output' = Format(rows)
    /\ view' = output'
    /\ orig' = rows
    /\ pc' = "formatted"
    /\ UNCHANGED <<rows, num_columns, valid, column_widths, error, source, ops>>
    /\ EvaluateUnchanged

NextParse == FromView \/ CheckValid \/ FormatToView

SpecParse == InitParse /\ [][NextParse]_vars

\* A text with nothing but whitespace in it (the empty text included).
IsBlank(text) == Strip(text) = <<>>

\* C1 (as claimed): parsing the output of Format gives back the grid that was
\* formatted: the same rows, the same cells per row and the same cell texts.
\* Every grid here has at least one cell per row and no newline in a cell.
C1_QuoteRoundTrip == pc = "reparsed" => rows = orig

\* C2 (as claimed): after FromText the matrix is valid iff it has at least one
\* row, and a blank (empty or whitespace-only) source leaves it invalid, so the
\* command gets no further than its refusal and the buffer stays as it was.
C2_GridValidity ==
    pc # "idle" =>
        /\ valid <=> Len(rows) >= 1
        /\ IsBlank(source) => /\ ~valid
                              /\ pc \in {"parsed", "refused"}
                              /\ view = source

\* C3: for a source text without a quote character, Format(FromText(text)) is
\* the text itself, character for character.
C3_RawRoundTrip ==
    (pc = "formatted" /\ QUOTE \notin Range(source)) => output = source

\* C3 witness: a line with a trailing delimiter, a blank line and a trailing
\* newline went through FromText and Format.
C3_Witness ==
    /\ pc = "formatted"
    /\ source = <<"a", delimiter, NEWLINE, NEWLINE>>
    /\ Len(rows) = 3

(***************************************************************************)
(* SpecColumns: InsertColumn and DeleteColumn on a finalized matrix.  The  *)
(* grids have every shape of up to MaxRows rows of 1..MaxCols cells; each  *)
(* cell's text names its place, so that a cell lost, moved or replaced     *)
(* shows.  A column is inserted, or deleted, or inserted and then deleted. *)
(***************************************************************************)
DigitChars == <<"0", "1", "2", "3", "4", "5", "6", "7", "8", "9">>

Digit(n) == DigitChars[n + 1]

\* The text of the cell at row r, column c (0-based) of a labelled grid.
Label(r, c) == <<Digit(r), Digit(c)>>

\* The labelled grids of up to max_rows rows of 1..max_cols cells.
LabelledGrids(max_rows, max_cols) ==
    {[r \in 1..Len(shape) |-> [c \in 1..shape[r] |-> Label(r - 1, c - 1)]] :
        shape \in NonEmptySeqsUpTo(1..max_cols, max_rows)}

\* The matrix FromText leaves: finalized, valid, nothing measured yet.
InitMatrix(grids) ==
    /\ rows \in grids
    /\ num_columns = MaxRowLen(rows)
    /\ valid = TRUE
    /\ column_widths = <<>>
    /\ view = <<>>
    /\ source = <<>>
    /\ output = <<>>
    /\ error = FALSE
    /\ pc = "ready"
    /\ orig = rows
    /\ ops = <<>>
    /\ NoEvaluate

MatrixUnchanged == UNCHANGED <<view, num_columns, valid, column_widths, output, error, source, orig>>

InitColumns == InitMatrix(LabelledGrids(MaxRows, MaxCols))

InsertColumnOp(i) ==
    /\ pc = "ready"
    /\ rows' = InsertColumn(rows, i)
    /\ ops' = Append(ops, <<"InsertColumn", i>>)
    /\ pc' = "inserted"
    /\ MatrixUnchanged
    /\ EvaluateUnchanged

DeleteColumnOp(i) ==
    /\ pc \in {"ready", "inserted"}
    /\ rows' = DeleteColumn(rows, i)
    /\ ops' = Append(ops, <<"DeleteColumn", i>>)
    /\ pc' = "deleted"
    /\ MatrixUnchanged
    /\ EvaluateUnchanged

NextColumns ==
    \E i \in 0..(MaxCols + 1) : InsertColumnOp(i) \/ DeleteColumnOp(i)

SpecColumns == InitColumns /\ [][NextColumns]_vars

\* InsertColumn(i) and then DeleteColumn(i) were applied, in this order.
InsertedThenDeleted(i) == ops = <<<<"InsertColumn", i>>, <<"DeleteColumn", i>>>>

\* C5: InsertColumn(i) followed by DeleteColumn(i) leaves every row as it was
\* (same length, same cell texts), and a row shorter than the index of every
\* operation applied is untouched by each of them.
C5_InsertDeleteInverse ==
    /\ \A i \in 0..(MaxCols + 1) : InsertedThenDeleted(i) => rows = orig
    /\ \A r \in 1..Len(orig) :
          (ops # <<>> /\ \A k \in 1..Len(ops) : Len(orig[r]) < ops[k][2])
              => rows[r] = orig[r]

\* C5 witness: column 2 inserted and deleted in a grid with a row shorter than
\* 2, a row of exactly 2 cells and a longer row.
C5_Witness ==
    /\ InsertedThenDeleted(2)
    /\ \E r1, r2, r3 \in 1..Len(orig) :
          Len(orig[r1]) < 2 /\ Len(orig[r2]) = 2 /\ Len(orig[r3]) > 2

(***************************************************************************)
(* SpecTrim: DeleteTrailingColumns and the three formatters on a finalized *)
(* matrix whose cells are empty, whitespace or text.                       *)
(***************************************************************************)
TrimCellTexts == {<<>>, <<SPACE>>, <<"a">>}

\* The grids of up to max_rows rows of 1..max_cols cells drawn from texts.
GridsOf(texts, max_rows, max_cols) ==
    NonEmptySeqsUpTo(NonEmptySeqsUpTo(texts, max_cols), max_rows)

InitTrim == InitMatrix(GridsOf(TrimCellTexts, MaxTrimRows, MaxTrimCols))

DeleteTrailingColumnsOp ==
    /\ pc = "ready"
    /\ rows' = DeleteTrailingColumns(rows)
    /\ ops' = Append(ops, <<"DeleteTrailingColumns">>)
    /\ pc' = "done"
    /\ MatrixUnchanged
    /\ EvaluateUnchanged

FormatOp ==
    /\ pc = "ready"
    /\ output' = Format(rows)
    /\ ops' = Append(ops, <<"Format">>)
    /\ pc' = "done"
    /\ UNCHANGED <<view, rows, num_columns, valid, column_widths, error, source, orig>>
    /\ EvaluateUnchanged

FormatCompactedOp ==
    /\ pc = "ready"
    /\ output' = FormatCompacted(rows)
    /\ ops' = Append(ops, <<"FormatCompacted">>)
    /\ pc' = "done"
    /\ UNCHANGED <<view, rows, num_columns, valid, column_widths, error, source, orig>>
    /\ EvaluateUnchanged

\* FormatExpanded measures the columns first (no row is longer than
\* num_columns right after Finalize).
FormatExpandedOp ==
    /\ pc = "ready"
    /\ MaxRowLen(rows) <= num_columns
    /\ column_widths' = MeasureColumns(rows, num_columns)
    /\ output' = FormatExpanded(rows, column_widths')
    /\ ops' = Append(ops, <<"FormatExpanded">>)
    /\ pc' = "done"
    /\ UNCHANGED <<view, rows, num_columns, valid, error, source, orig>>
    /\ EvaluateUnchanged

NextTrim ==
    \/ DeleteTrailingColumnsOp
    \/ FormatOp
    \/ FormatCompactedOp
    \/ FormatExpandedOp

SpecTrim == InitTrim /\ [][NextTrim]_vars

\* The 0-based indexes of the cells of a row whose stripped text is not empty.
FilledColumns(row) == {c \in 0..(Len(row) - 1) : Strip(row[c + 1]) # <<>>}

\* C7 (as claimed): DeleteTrailingColumns cuts each row to one past its highest
\* column with a non-blank text, and a row with only blank cells to no cell.
C7_DeleteTrailingColumns ==
    ops = <<<<"DeleteTrailingColumns">>>> =>
        \A r \in 1..Len(orig) :
            LET filled == FilledColumns(orig[r])
                keep == IF filled = {} THEN 0
                        ELSE 1 + CHOOSE c \in filled : \A d \in filled : d <= c
            IN  rows[r] = SubSeq(orig[r], 1, keep)

\* The output the claim describes: every cell but the last of its row padded
\* to the measured width of its column, the last cell as QuoteText gives it.
ExpandedAsClaimed(rs, widths) ==
    Join([r \in 1..Len(rs) |->
            Join([c \in 1..Len(rs[r]) |->
                    IF c < Len(rs[r])
                    THEN LJust(QuoteText(rs[r][c]), widths[c])
                    ELSE QuoteText(rs[r][c])],
                 delimiter)],
         NEWLINE)

\* C8 (as claimed): FormatExpanded pads every cell except the last of its row.
C8_ExpandedLastCellUnpadded ==
    ops = <<<<"FormatExpanded">>>> =>
        output = ExpandedAsClaimed(rows, MeasureColumns(rows, num_columns))

(***************************************************************************)
(* The comparator and the sort.                                            *)
(***************************************************************************)
\* The characters of the model in code-point order: str < and > compare
\* texts character by character by code point.
CharOrder == <<"\t", "\n", "\r", " ", "\"", "'", "+", ",", "-", ".",
               "0", "1", "2", "3", "4", "5", "6", "7", "8", "9",
               ":", "<", "=", ">", "E", "[", "]", "^",
               "a", "b", "c", "e", "f", "l", "o", "r", "v", "w", "x">>

Ord(c) == CHOOSE i \in DOMAIN CharOrder : CharOrder[i] = c

\* a < b for Python strings.
RECURSIVE TextLess(_, _)
TextLess(a, b) ==
    IF b = <<>> THEN FALSE
    ELSE IF a = <<>> THEN TRUE
    ELSE IF Head(a) = Head(b) THEN TextLess(Tail(a), Tail(b))
    ELSE Ord(Head(a)) < Ord(Head(b))

IsDigit(c) == c \in Range(DigitChars)

DigitValue(c) == CHOOSE n \in 0..9 : DigitChars[n + 1] = c

\* The integer written by a sequence of digits (0 for none).
RECURSIVE DigitsValue(_)
DigitsValue(digits) ==
    IF digits = <<>> THEN 0
    ELSE 10 * DigitsValue(SubSeq(digits, 1, Len(digits) - 1))
         + DigitValue(digits[Len(digits)])

RECURSIVE Pow10(_)
Pow10(n) == IF n = 0 THEN 1 ELSE 10 * Pow10(n - 1)

\* The text between surrounding whitespace and after one sign.
Unsigned(text) ==
    LET t == Strip(text)
    IN  IF t # <<>> /\ Head(t) \in {"+", "-"} THEN Tail(t) ELSE t

\* float(text) succeeds.  The texts of the model are made of digits, '.',
\* signs, spaces and characters no float contains; exponents, "inf", "nan"
\* and underscores are not among them.
IsFloat(text) ==
    LET u == Unsigned(text)
    IN  /\ \A i \in DOMAIN u : IsDigit(u[i]) \/ u[i] = "."
        /\ Cardinality({i \in DOMAIN u : u[i] = "."}) <= 1
        /\ \E i \in DOMAIN u : IsDigit(u[i])

\* float(text) as a fraction num / den, den a power of ten.
FloatValue(text) ==
    LET t == Strip(text)
        u == Unsigned(text)
        digits == SelectSeq(u, IsDigit)
        dots == {i \in DOMAIN u : u[i] = "."}
        decimals == IF dots = {} THEN 0 ELSE Len(u) - (CHOOSE i \in dots : TRUE)
        sign == IF t # <<>> /\ Head(t) = "-" THEN -1 ELSE 1
    IN  [num |-> sign * DigitsValue(digits), den |-> Pow10(decimals)]

\* CSVValue.Compare: a number with the sign of a_float - b_float when both
\* texts are floats, else 1, -1 or 0 by str comparison.
Compare(a, b) ==
    IF IsFloat(a) /\ IsFloat(b)
    THEN FloatValue(a).num * FloatValue(b).den - FloatValue(b).num * FloatValue(a).den
    ELSE IF TextLess(b, a) THEN 1
    ELSE IF TextLess(a, b) THEN -1
    ELSE 0

\* CSVMatrix.GetCellValue for column_index >= 0: the cell, or an empty one.
GetCellValue(row, column_index) ==
    IF column_index < Len(row) THEN row[column_index + 1] ELSE <<>>

\* Compare.__lt__ of SortByColumn: the order of two rows by their key cells.
RowLess(a, b, column_index) ==
    Compare(GetCellValue(a, column_index), GetCellValue(b, column_index)) < 0

Reverse(s) == [i \in 1..Len(s) |-> s[Len(s) + 1 - i]]

\* count_run of list.sort: the length of the run the list starts with, a run
\* being either non-descending or strictly descending (Len(s) >= 2).
RECURSIVE RunEnd(_, _, _, _)
RunEnd(s, n, descending, column_index) ==
    IF n < Len(s) /\ (RowLess(s[n + 1], s[n], column_index) <=> descending)
    THEN RunEnd(s, n + 1, descending, column_index)
    ELSE n

\* The binary search of binarysort: where pivot goes in the sorted s[l+1..r].
RECURSIVE InsertionPoint(_, _, _, _, _)
InsertionPoint(s, pivot, l, r, column_index) ==
    IF l >= r THEN l
    ELSE LET p == l + ((r - l) \div 2)
         IN  IF RowLess(pivot, s[p + 1], column_index)
             THEN InsertionPoint(s, pivot, l, p, column_index)
             ELSE InsertionPoint(s, pivot, p + 1, r, column_index)

\* binarysort: s[1..start] is sorted; insert the others one by one.
RECURSIVE BinarySort(_, _, _)
BinarySort(s, start, column_index) ==
    IF start >= Len(s) THEN s
    ELSE LET pivot == s[start + 1]
             l == InsertionPoint(s, pivot, 0, start, column_index)
         IN  BinarySort(SubSeq(s, 1, l) \o <<pivot>> \o SubSeq(s, l + 1, start)
                            \o SubSeq(s, start + 2, Len(s)),
                        start + 1, column_index)

\* list.sort without reverse, for fewer than 64 items: the first run is
\* found (and reversed if descending), the rest is inserted by binarysort.
SortAscending(s, column_index) ==
    IF Len(s) < 2 THEN s
    ELSE LET descending == RowLess(s[2], s[1], column_index)
             n == RunEnd(s, 2, descending, column_index)
             run == IF descending THEN Reverse(SubSeq(s, 1, n)) ELSE SubSeq(s, 1, n)
         IN  BinarySort(run \o SubSeq(s, n + 1, Len(s)), n, column_index)

\* A descending sort done as the ascending sort turned round: equal rows
\* come out in reverse order.
SortedTurnedRound(s, column_index, reverse) ==
    IF reverse THEN Reverse(SortAscending(s, column_index))
    ELSE SortAscending(s, column_index)

\* sorted(s, key=..., reverse=reverse): with reverse the list is reversed
\* before and after the sort, which keeps equal items in their order.
Sorted(s, column_index, reverse) ==
    IF reverse THEN Reverse(SortAscending(Reverse(s), column_index))
    ELSE SortAscending(s, column_index)

Ascending == 1
Descending == 2

SortByColumn(rs, column_index, direction, use_header) ==
    LET reverse == direction = Descending
    IN  IF use_header
        THEN SubSeq(rs, 1, 1) \o Sorted(SubSeq(rs, 2, Len(rs)), column_index, reverse)
        ELSE Sorted(rs, column_index, reverse)

(***************************************************************************)
(* SpecSort: SortByColumn on a finalized matrix.  Row i is <<tag>> or      *)
(* <<tag, key>>: the tag names the row's original place, the key is drawn  *)
(* from SortKeys, and a row without key is shorter than column 1.          *)
(***************************************************************************)
\* "1" and "1.0" are equal as floats; "1-" is no float and lies between them
\* as a string.
SortKeys == {<<"1">>, <<"1", ".", "0">>, <<"1", "-">>, <<"2">>}

Tag(i) == <<"r", Digit(i)>>

\* The grids of up to max_rows tagged rows, with or without a key.
SortGrids(max_rows) ==
    {[i \in 1..Len(keys) |-> <<Tag(i - 1)>> \o keys[i]] :
        keys \in NonEmptySeqsUpTo({<<>>} \cup {<<k>> : k \in SortKeys}, max_rows)}

InitSort == InitMatrix(SortGrids(MaxSortRows))

SortByColumnOp(column_index, direction, use_header) ==
    /\ pc = "ready"
    /\ rows' = SortByColumn(rows, column_index, direction, use_header)
    /\ ops' = Append(ops, <<"SortByColumn", column_index, direction, use_header>>)
    /\ pc' = "done"
    /\ MatrixUnchanged
    /\ EvaluateUnchanged

NextSort ==
    \E column_index \in 0..2, direction \in {Ascending, Descending},
       use_header \in BOOLEAN :
        SortByColumnOp(column_index, direction, use_header)

SpecSort == InitSort /\ [][NextSort]_vars

\* The place of the original row p in the rows now (tags are unique).
PlaceOf(p) == CHOOSE q \in 1..Len(rows) : rows[q] = orig[p]

\* The sort applied kept the order of every two sorted rows with equal keys,
\* permuted the sorted rows only, and left row 0 in place under use_header.
StableAfterSort ==
    LET column_index == ops[1][2]
        use_header == ops[1][4]
        first == IF use_header THEN 2 ELSE 1
    IN  /\ Len(rows) = Len(orig)
        /\ \A p \in 1..Len(orig) : \E q \in 1..Len(rows) : rows[q] = orig[p]
        /\ use_header => rows[1] = orig[1]
        /\ \A p, q \in first..Len(orig) :
              (p < q /\ Compare(GetCellValue(orig[p], column_index),
                                GetCellValue(orig[q], column_index)) = 0)
                  => PlaceOf(p) < PlaceOf(q)

\* C4 (as claimed): SortByColumn keeps the relative order of any two sorted
\* rows whose key cells compare equal, ascending and descending, and with
\* use_header row 0 stays and only rows 1..end are permuted.
C4_StableSort == Len(ops) = 1 => StableAfterSort

\* The keys of the sorted rows are all floats, or none of them is.
UniformKeys ==
    LET column_index == ops[1][2]
        first == IF ops[1][4] THEN 2 ELSE 1
        keys == {GetCellValue(orig[p], column_index) : p \in first..Len(orig)}
    IN  (\A k \in keys : IsFloat(k)) \/ (\A k \in keys : ~IsFloat(k))

\* C4 (amended): the same, for a column whose keys among the sorted rows are
\* all (finite) floats or all not floats.
C4_StableSortUniformKeys == (Len(ops) = 1 /\ UniformKeys) => StableAfterSort

\* C4 witness: a descending sort under use_header moved rows, and two of the
\* sorted rows have the equal float keys "1" and "1.0".
C4_Witness ==
    /\ Len(ops) = 1
    /\ ops[1][3] = Descending
    /\ ops[1][4]
    /\ UniformKeys
    /\ rows # orig
    /\ \E p, q \in 2..Len(orig) :
          /\ p < q
          /\ GetCellValue(orig[p], ops[1][2]) = <<"1">>
          /\ GetCellValue(orig[q], ops[1][2]) = <<"1", ".", "0">>

(***************************************************************************)
(* The expression evaluator.                                               *)
(***************************************************************************)
\* 1 if the character at pos (1-based) is one of chars, else 0: an optional
\* one-character group of EXPRESSION_RE.
Opt(text, pos, chars) == IF pos <= Len(text) /\ text[pos] \in chars THEN 1 ELSE 0

\* The number of digits from pos on: an optional (\d+) group.
RECURSIVE DigitsAt(_, _)
DigitsAt(text, pos) ==
    IF pos <= Len(text) /\ IsDigit(text[pos]) THEN 1 + DigitsAt(text, pos + 1) ELSE 0

\* The n characters of text from pos; <<>> stands for a group that did not
\* take part in the match (None).
Group(text, pos, n) == SubSeq(text, pos, pos + n - 1)

NoMatch == [matched |-> FALSE]

\* The rest of EXPRESSION_RE after the optional bracket: an optional
\* direction and the '=' sign.  groups holds the bracket's groups.
MatchTail(text, pos, groups) ==
    LET d == Opt(text, pos, {"<", ">", "v", "^"})
    IN  IF pos + d <= Len(text) /\ text[pos + d] = "="
        THEN [matched |-> TRUE, length |-> pos + d,
              direction |-> Group(text, pos, d), groups |-> groups]
        ELSE NoMatch

\* The named groups of the bracket, in the order of EXPRESSION_RE.
GroupNames == <<"row_begin_mod", "row_begin", "row_delim", "row_end_mod", "row_end",
                "comma", "column_begin_mod", "column_begin", "column_delim",
                "column_end_mod", "column_end">>

NoGroups == [row_begin_mod |-> <<>>, row_begin |-> <<>>, row_delim |-> <<>>,
             row_end_mod |-> <<>>, row_end |-> <<>>, comma |-> <<>>,
             column_begin_mod |-> <<>>, column_begin |-> <<>>, column_delim |-> <<>>,
             column_end_mod |-> <<>>, column_end |-> <<>>]

\* The characters the k-th optional group of the bracket takes one of; the
\* groups 2, 5, 8 and 11 are the (\d+) ones.
GroupChars(k) ==
    IF k \in {1, 4, 7, 10} THEN {"+", "-"}
    ELSE IF k \in {3, 9} THEN {":"}
    ELSE IF k = 6 THEN {","}
    ELSE Range(DigitChars)

\* The number of characters the k-th group takes at pos.
GroupLen(text, pos, k) ==
    IF k \in {2, 5, 8, 11} THEN DigitsAt(text, pos) ELSE Opt(text, pos, GroupChars(k))

\* The groups of the bracket from the k-th on, each optional and greedy: a
\* character an earlier group can take is never left to a later one.  found
\* holds the groups matched so far; the result is [pos, found].
RECURSIVE ScanGroups(_, _, _, _)
TakeGroup(text, pos, k, found, n) ==
    ScanGroups(text, pos + n, k + 1, Append(found, Group(text, pos, n)))

ScanGroups(text, pos, k, found) ==
    IF k > Len(GroupNames) THEN [pos |-> pos, found |-> found]
    ELSE TakeGroup(text, pos, k, found, GroupLen(text, pos, k))

\* The bracket's closing character, then the rest.
MatchBracket(text, scan) ==
    IF Opt(text, scan.pos, {"]"}) = 0 THEN NoMatch
    ELSE MatchTail(text, scan.pos + 1,
                   [row_begin_mod |-> scan.found[1], row_begin |-> scan.found[2],
                    row_delim |-> scan.found[3], row_end_mod |-> scan.found[4],
                    row_end |-> scan.found[5], comma |-> scan.found[6],
                    column_begin_mod |-> scan.found[7], column_begin |-> scan.found[8],
                    column_delim |-> scan.found[9], column_end_mod |-> scan.found[10],
                    column_end |-> scan.found[11]])

\* EXPRESSION_RE.match(text)
MatchExpression(text) ==
    IF Opt(text, 1, {"["}) = 0 THEN MatchTail(text, 1, NoGroups)
    ELSE MatchBracket(text, ScanGroups(text, 2, 1, <<>>))

ApplyModifier(value, mod, base_value) ==
    IF mod = <<"+">> THEN base_value + value
    ELSE IF mod = <<"-">> THEN base_value - value
    ELSE value

\* GetCoordinateRange; num_rows is len(self.rows), which the code takes as
\* the default end of a range of rows and of a range of columns alike.
GetCoordinateRange(begin_mod, begin, delim, end_mod, end, base_value, num_rows) ==
    IF delim # <<>>
    THEN <<IF begin = <<>> THEN 0
           ELSE ApplyModifier(DigitsValue(begin), begin_mod, base_value),
           IF end = <<>> THEN num_rows
           ELSE ApplyModifier(DigitsValue(end), end_mod, base_value)>>
    ELSE IF begin = <<>> THEN <<base_value, base_value + 1>>
    ELSE LET b == ApplyModifier(DigitsValue(begin), begin_mod, base_value)
         IN  <<b, b + 1>>

\* (row_begin, row_end, column_begin, column_end)
GetRowColumnCoordinateRange(m, base_row_index, base_column_index, num_rows) ==
    LET g == m.groups
        row_range == GetCoordinateRange(g.row_begin_mod, g.row_begin, g.row_delim,
                                        g.row_end_mod, g.row_end,
                                        base_row_index, num_rows)
        column_range == GetCoordinateRange(g.column_begin_mod, g.column_begin,
                                           g.column_delim, g.column_end_mod,
                                           g.column_end, base_column_index, num_rows)
    IN  <<row_range[1], row_range[2], column_range[1], column_range[2]>>

ApplyDirectionOffsetToRange(m, coord_range) ==
    IF m.direction = <<"^">>
    THEN <<coord_range[1] - 1, coord_range[2] - 1, coord_range[3], coord_range[4]>>
    ELSE IF m.direction = <<"v">>
    THEN <<coord_range[1] + 1, coord_range[2] + 1, coord_range[3], coord_range[4]>>
    ELSE IF m.direction = <<"<">>
    THEN <<coord_range[1], coord_range[2], coord_range[3] - 1, coord_range[4] - 1>>
    ELSE IF m.direction = <<">">>
    THEN <<coord_range[1], coord_range[2], coord_range[3] + 1, coord_range[4] + 1>>
    ELSE coord_range

\* str(n) for an integer n.
RECURSIVE NatToText(_)
NatToText(n) ==
    IF n < 10 THEN <<Digit(n)>> ELSE Append(NatToText(n \div 10), Digit(n % 10))

IntToText(n) == IF n < 0 THEN <<"-">> \o NatToText(-n) ELSE NatToText(n)

\* str(e) for the exception eval raised; no such text starts like an
\* expression cell.
ErrorText == <<"E", "r", "r", "o", "r">>

\* str(eval(expression)) with row, col, frow, fcol bound, for the expressions
\* the model's cells hold: an integer literal, one of the four names, or a
\* string literal in single quotes.  Anything else stands for an expression
\* that raises.  No expression of the model reads the snapshot m.
PyEval(expression, row, col, frow, fcol) ==
    LET e == Strip(expression)
    IN  IF e # <<>> /\ (\A i \in DOMAIN e : IsDigit(e[i]))
           /\ (e[1] # "0" \/ \A i \in DOMAIN e : e[i] = "0")
        THEN IntToText(DigitsValue(e))
        ELSE IF e = <<"r", "o", "w">> THEN IntToText(row)
        ELSE IF e = <<"c", "o", "l">> THEN IntToText(col)
        ELSE IF e = <<"f", "r", "o", "w">> THEN IntToText(frow)
        ELSE IF e = <<"f", "c", "o", "l">> THEN IntToText(fcol)
        ELSE IF Len(e) >= 2 /\ e[1] = "'" /\ e[Len(e)] = "'"
                /\ \A i \in 2..(Len(e) - 1) : e[i] \notin {"'", "\\"}
        THEN SubSeq(e, 2, Len(e) - 1)
        ELSE ErrorText

\* The cells range(row_begin, row_end) x range(column_begin, column_end) in
\* the order of the two for loops.
TargetCells(target_range) ==
    LET num_r == Max(target_range[2] - target_range[1], 0)
        num_c == Max(target_range[4] - target_range[3], 0)
    IN  [k \in 1..(num_r * num_c) |->
            <<target_range[1] + ((k - 1) \div num_c),
              target_range[3] + ((k - 1) % num_c)>>]

\* seq[i] of Python raises IndexError outside -len..len-1.
InRange(i, len) == -len <= i /\ i < len

\* The 1-based place of Python's index i (negative from the end).
PyIndex(i, len) == IF i >= 0 THEN i + 1 ELSE len + i + 1

\* The second try block for one target cell: the row is padded up to the
\* target column, then the result replaces the target's text, ljust-ed to
\* the length of the old text.  An IndexError leaves things as they are.
\* st is [rows, created].
WriteCell(st, widths, target_row_index, target_column_index, result) ==
    IF ~InRange(target_row_index, Len(st.rows)) THEN st
    ELSE LET ri == PyIndex(target_row_index, Len(st.rows))
             row == st.rows[ri]
             padded == row \o [k \in 1..Max(target_column_index + 1 - Len(row), 0) |->
                                  Repeat(SPACE, widths[Len(row) + k])]
             made == {<<ri - 1, c>> : c \in Len(row)..(Len(padded) - 1)}
         IN  IF ~InRange(target_column_index, Len(padded))
             THEN [rows |-> [st.rows EXCEPT ![ri] = padded],
                   created |-> st.created \cup made]
             ELSE LET ci == PyIndex(target_column_index, Len(padded))
                  IN  [rows |-> [st.rows EXCEPT
                                    ![ri] = [padded EXCEPT
                                                ![ci] = LJust(result, Len(padded[ci]))]],
                       created |-> st.created \cup made]

\* The two for loops of EvaluateExpressionCell from the k-th target cell on.
RECURSIVE WriteTargets(_, _, _, _, _, _, _)
WriteTargets(st, widths, targets, k, expression, frow, fcol) ==
    IF k > Len(targets) THEN st
    ELSE LET result == PyEval(expression, targets[k][1], targets[k][2], frow, fcol)
         IN  WriteTargets(WriteCell(st, widths, targets[k][1], targets[k][2], result),
                          widths, targets, k + 1, expression, frow, fcol)

\* while target_range[1] >= len(self.rows): self.rows.append([])
GrowRows(rs, row_end) == rs \o Repeat(<<>>, row_end + 1 - Len(rs))

\* while target_range[3] >= len(self.column_widths): self.column_widths.append(0)
GrowWidths(widths, column_end) ==
    widths \o Repeat(0, column_end + 1 - Len(widths))

\* EvaluateExpressionCell for the cell at (row_index, column_index) with the
\* given text and match: [rows, column_widths, created, coord_range,
\* target_range].
EvaluateExpressionCell(rs, widths, row_index, column_index, text, m) ==
    LET coord_range == GetRowColumnCoordinateRange(m, row_index, column_index, Len(rs))
        target_range == ApplyDirectionOffsetToRange(m, coord_range)
        expression == SubSeq(text, m.length + 1, Len(text))
        grown == GrowRows(rs, target_range[2])
        new_widths == GrowWidths(widths, target_range[4])
        st == WriteTargets([rows |-> grown, created |-> {}], new_widths,
                           TargetCells(target_range), 1, expression,
                           row_index, column_index)
    IN  [rows |-> st.rows, column_widths |-> new_widths, created |-> st.created,
         coord_range |-> coord_range, target_range |-> target_range]

(***************************************************************************)
(* SpecEval: CsvEvaluateCommand on a finalized matrix.  Evaluate runs cell *)
(* by cell: the two iterators of its scan loop are row_iter and            *)
(* column_iter, and a step tests one cell and, on a match, runs            *)
(* EvaluateExpressionCell to its end.  The grids are plain cells "x" with  *)
(* up to MaxExprs cells holding an expression of ExprTexts.                *)
(***************************************************************************)
PlainText == <<"x">>

ExprTexts ==
    { <<"=", "1">>,                               \* =1
      <<"v", "=", "'", "=", "1", "'">>,           \* v='=1'
      <<">", "=", "r", "o", "w">>,                \* >=row
      <<"^", "=", "5">>,                          \* ^=5
      <<"[", "0", ",", ":", "]", "=", "7">>,      \* [0,:]=7
      <<"[", ":", ",", "0", "]", "=", "7">>,      \* [:,0]=7
      <<"[", "-", "3", ",", "0", "]", "=", "5">>  \* [-3,0]=5
    }

\* The 1-based places of the cells of a grid with the given row lengths.
CellsOf(shape, max_cols) ==
    {rc \in (1..Len(shape)) \X (1..max_cols) : rc[2] <= shape[rc[1]]}

\* The grids of up to max_rows rows of 1..max_cols cells, up to max_exprs of
\* them expressions.
EvalGrids(max_rows, max_cols, max_exprs) ==
    UNION {
        UNION {
            {[r \in 1..Len(shape) |->
                [c \in 1..shape[r] |->
                    IF <<r, c>> \in at THEN texts[<<r, c>>] ELSE PlainText]] :
                texts \in [at -> ExprTexts]} :
            at \in {a \in SUBSET CellsOf(shape, max_cols) : Cardinality(a) <= max_exprs}} :
        shape \in NonEmptySeqsUpTo(1..max_cols, max_rows)}

InitEval == InitMatrix(EvalGrids(MaxEvalRows, MaxEvalCols, MaxExprs))

\* Evaluate up to its scan loop: MeasureColumns (the snapshot m is read by
\* no expression of the model).
EvaluateBegin ==
    /\ pc = "ready"
    /\ MaxRowLen(rows) <= num_columns
    /\ column_widths' = MeasureColumns(rows, num_columns)
    /\ row_iter' = 0
    /\ column_iter' = 0
    /\ ops' = Append(ops, <<"Evaluate">>)
    /\ pc' = "scan"
    /\ UNCHANGED <<view, rows, num_columns, valid, output, error, source, orig,
                   last, scanned, evaluated, created>>

\* One turn of the inner loop: the cell under the iterators is tested and,
\* if it matches, evaluated.
ScanCell ==
    /\ pc = "scan"
    /\ row_iter < Len(rows)
    /\ column_iter < Len(rows[row_iter + 1])
    /\ LET text == rows[row_iter + 1][column_iter + 1]
           expression_match == MatchExpression(text)
       IN  /\ scanned' = Append(scanned, <<row_iter, column_iter>>)
           /\ IF expression_match.matched
              THEN LET res == EvaluateExpressionCell(rows, column_widths, row_iter,
                                                     column_iter, text, expression_match)
                       g == expression_match.groups
                   IN  /\ rows' = res.rows
                       /\ column_widths' = res.column_widths
                       /\ created' = created \cup res.created
                       /\ evaluated' = Append(evaluated, <<row_iter, column_iter>>)
                       /\ last' = [frow |-> row_iter, fcol |-> column_iter,
                                   coord_range |-> res.coord_range,
                                   target_range |-> res.target_range,
                                   prev_rows |-> Len(rows),
                                   prev_columns |-> num_columns,
                                   prev_max_len |-> MaxRowLen(rows),
                                   prev_widths |-> Len(column_widths),
                                   row_begin |-> g.row_begin # <<>>,
                                   row_delim |-> g.row_delim # <<>>,
                                   row_end |-> g.row_end # <<>>,
                                   column_begin |-> g.column_begin # <<>>,
                                   column_delim |-> g.column_delim # <<>>,
                                   column_end |-> g.column_end # <<>>]
              ELSE UNCHANGED <<rows, column_widths, created, evaluated, last>>
    /\ column_iter' = column_iter + 1
    /\ UNCHANGED <<view, num_columns, valid, output, error, pc, source, orig, ops,
                   row_iter>>

\* The inner loop is at the end of its row: the outer loop takes the next.
NextRow ==
    /\ pc = "scan"
    /\ row_iter < Len(rows)
    /\ column_iter >= Len(rows[row_iter + 1])
    /\ row_iter' = row_iter + 1
    /\ column_iter' = 0
    /\ UNCHANGED <<view, rows, num_columns, valid, column_widths, output, error, pc,
                   source, orig, ops, last, scanned, evaluated, created>>

\* The outer loop is at the end of the rows: Evaluate returns and the
\* command renders the matrix.
EvaluateEnd ==
    /\ pc = "scan"
    /\ row_iter >= Len(rows)
    /\ output' = Format(rows)
    /\ pc' = "done"
    /\ UNCHANGED <<view, rows, num_columns, valid, column_widths, error, source, orig,
                   ops, row_iter, column_iter, last, scanned, evaluated, created>>

NextEval == EvaluateBegin \/ ScanCell \/ NextRow \/ EvaluateEnd

SpecEval == InitEval /\ [][NextEval]_vars

\* C6 (as claimed): in a range with its end omitted the end is the row count
\* for the row range and the column count for the column range (whichever of
\* num_columns, the longest row and the measured widths counts the columns),
\* and an omitted begin is 0.  The range is the one resolved for the last
\* expression evaluated.
C6_RangeEndDefault ==
    evaluated # <<>> =>
        /\ (last.row_delim /\ ~last.row_end) => last.coord_range[2] = last.prev_rows
        /\ (last.column_delim /\ ~last.column_end) =>
              last.coord_range[4] \in {last.prev_columns, last.prev_max_len,
                                       last.prev_widths}
        /\ (last.row_delim /\ ~last.row_begin) => last.coord_range[1] = 0
        /\ (last.column_delim /\ ~last.column_begin) => last.coord_range[3] = 0

\* C9 (as claimed): an expression appends rows only until its row_end is
\* within bounds: the row count after it is max(row count before, row_end).
C9_GrowthOnlyIfNeeded ==
    evaluated # <<>> => Len(rows) = Max(last.prev_rows, last.target_range[2])

\* (r1, c1) comes before (r2, c2) in row-major order.
RowMajorBefore(a, b) == a[1] < b[1] \/ (a[1] = b[1] /\ a[2] < b[2])

\* C10 (as claimed): the cells are tested in strictly ascending row-major
\* order (so none twice), and no cell created by an expression of this pass
\* has its own text evaluated as an expression in the pass.
C10_SingleScan ==
    /\ \A i, j \in DOMAIN scanned : i < j => RowMajorBefore(scanned[i], scanned[j])
    /\ \A k \in DOMAIN evaluated : evaluated[k] \notin created

\* (r, c) lies inside range(row_begin, row_end) x range(column_begin,
\* column_end) of the target range.
InTarget(target_range, r, c) ==
    /\ target_range[1] <= r /\ r < target_range[2]
    /\ target_range[3] <= c /\ c < target_range[4]

\* C11 (as claimed): a step of Evaluate changes the text of an existing cell
\* at (r, c) only if (r, c) lies inside the direction-shifted target range of
\* the expression cell evaluated in that step; so a target coordinate that
\* is negative overwrites no cell of the grid.
C11_WriteConfinement ==
    [][\A r \in 1..Len(rows) : \A c \in 1..Len(rows[r]) :
            rows'[r][c] # rows[r][c] =>
                /\ evaluated' # evaluated
                /\ InTarget(last'.target_range, r - 1, c - 1)]_vars

====
